---- MODULE Spec2Model ----
(***************************************************************************)
(* The sparsified, banded, incremental Damerau-Levenshtein calculation of  *)
(* src/src/sparsified-iterative-dl.ts.                                     *)
(*                                                                         *)
(* Every JavaScript array of the program is an object of a heap: `heap` is *)
(* a sequence of arrays and the address of an array is its index in it.    *)
(* A calculation object is a record of its fields; the three array fields  *)
(* hold addresses.  Element k (0-based) of an array x is x[k+1].  Every    *)
(* method is an operator from a heap (and its arguments) to a record       *)
(* [heap, ret]: the heap after the call and the value returned.            *)
(***************************************************************************)
EXTENDS Integers, Sequences, FiniteSets, TLC

\* The symbols appended; the program only ever compares symbols for equality.
Symbols == <<"a", "b", "c">>

\* Bounds of the model: the lengths the two sequences grow to, the widths a new
\* calculation is given, and the number of increaseMaxDistance calls.
MaxInput == 3
MaxMatch == 3
MaxInitWidth == 2
MaxWidenings == 2

\* Bounds of BuildSpec, whose calculations are built before they are widened.
MaxBuildInput == 4
MaxBuildMatch == 5
MaxBuildWidenings == 3

\* Number.MAX_VALUE.  k added to it gives it back (floating-point absorption),
\* which Plus states; every finite cost of the model is far below it.
MAX_VALUE == 1000000

\* The values `undefined` and NaN where a number is expected: an omitted optional
\* parameter (insertCost, deleteCost) and an array element never written are
\* undefined, and a sum with undefined or NaN is NaN.
UndefinedCost == -1
NaN == -2

\* What reading an array of symbols past its end gives.
Undefined == "undefined"

Min2(x, y) == IF x <= y THEN x ELSE y
Max2(x, y) == IF x >= y THEN x ELSE y
IsNumber(x) == x # UndefinedCost /\ x # NaN
\* Math.min, and the comparisons x < y and x <= y, of JavaScript numbers.
MathMin(x, y) == IF IsNumber(x) /\ IsNumber(y) THEN Min2(x, y) ELSE NaN
Less(x, y) == IsNumber(x) /\ IsNumber(y) /\ x < y
LessEq(x, y) == IsNumber(x) /\ IsNumber(y) /\ x <= y
SetMax(S) == CHOOSE x \in S : \A y \in S : y <= x
SetMin(S) == CHOOSE x \in S : \A y \in S : x <= y

Plus(x, k) ==
  IF ~IsNumber(x) \/ ~IsNumber(k) THEN NaN
  ELSE IF x >= MAX_VALUE THEN MAX_VALUE ELSE x + k

\* x[i] of JavaScript for an array of numbers and for an array of symbols.
NumberAt(arr, i) == IF i >= 0 /\ i < Len(arr) THEN arr[i + 1] ELSE UndefinedCost

At(arr, i) == IF i >= 0 /\ i < Len(arr) THEN arr[i + 1] ELSE Undefined

\* Array.prototype.lastIndexOf(x, fromIndex) and indexOf(x, fromIndex).
LastIndexOf(arr, x, fromIndex) ==
  LET k == IF fromIndex >= 0 THEN Min2(fromIndex, Len(arr) - 1)
                             ELSE Len(arr) + fromIndex
      found == {i \in 0..k : arr[i + 1] = x}
  IN IF found = {} THEN -1 ELSE SetMax(found)

IndexOf(arr, x, fromIndex) ==
  LET k == IF fromIndex >= 0 THEN fromIndex ELSE Max2(Len(arr) + fromIndex, 0)
      found == {i \in k..(Len(arr) - 1) : arr[i + 1] = x}
  IN IF found = {} THEN -1 ELSE SetMin(found)

\* Array(n).fill(v)
RECURSIVE Filled(_, _)
Filled(n, v) == IF n <= 0 THEN <<>> ELSE Append(Filled(n - 1, v), v)

\* A new array on the heap: its address is Len(H) + 1.
Alloc(H, arr) == Append(H, arr)

InputOf(H, s) == H[s.inputSequence]
MatchOf(H, s) == H[s.matchSequence]
RowsOf(H, s) == H[s.resolvedDistances]
RowOf(H, s, r) == H[RowsOf(H, s)[r + 1]]

(***************************************************************************)
(* constructor(other?)                                                     *)
(***************************************************************************)
\* new SparsifiedIterativeDamerauLevenshteinCalculation(): three empty arrays,
\* diagonalWidth 1.
NewEmpty(H) ==
  LET a == Len(H)
  IN [heap |-> H \o << <<>>, <<>>, <<>> >>,
      ret  |-> [inputSequence |-> a + 1, matchSequence |-> a + 2,
                resolvedDistances |-> a + 3, diagonalWidth |-> 1]]

\* The rows cloned one by one with Array.from: row r of the copy is a new array.
RECURSIVE CloneRows(_, _, _, _)
CloneRows(H, rows, r, acc) ==
  IF r >= Len(rows) THEN [heap |-> H, ret |-> acc]
  ELSE CloneRows(Alloc(H, H[rows[r + 1]]), rows, r + 1, Append(acc, Len(H) + 1))

\* A constructor that copies the array of rows but not the rows: both
\* calculations then hold the same row arrays.
CloneSharingRows(H, other) ==
  LET H1 == Alloc(H, RowsOf(H, other))
      H2 == Alloc(H1, InputOf(H, other))
      H3 == Alloc(H2, MatchOf(H, other))
  IN [heap |-> H3,
      ret  |-> [inputSequence |-> Len(H3) - 1, matchSequence |-> Len(H3),
                resolvedDistances |-> Len(H1),
                diagonalWidth |-> other.diagonalWidth]]

\* new SparsifiedIterativeDamerauLevenshteinCalculation(other)
Clone(H, other) ==
  LET rows == CloneRows(H, RowsOf(H, other), 0, <<>>)
      H1 == Alloc(rows.heap, rows.ret)
      H2 == Alloc(H1, InputOf(H, other))
      H3 == Alloc(H2, MatchOf(H, other))
  IN [heap |-> H3,
      ret  |-> [inputSequence |-> Len(H3) - 1, matchSequence |-> Len(H3),
                resolvedDistances |-> Len(H1),
                diagonalWidth |-> other.diagonalWidth]]

(***************************************************************************)
(* getTrueIndex, getCostAt, getHeuristicFinalCost                          *)
(***************************************************************************)
GetTrueIndex(r, c, width) ==
  [row |-> r, col |-> c - r + width,
   sparse |-> (c - r + width < 0 \/ c - r + width > 2 * width)]

\* A getCostAt that reads a cell outside the band as costing nothing.
GetCostAtFreeOutsideBand(H, s, i, j, width) ==
  IF i < 0 \/ j < 0
  THEN IF i = -1 /\ j >= -1 THEN j + 1
       ELSE IF j = -1 /\ i >= -1 THEN i + 1
       ELSE MAX_VALUE
  ELSE LET index == GetTrueIndex(i, j, width)
       IN IF index.sparse THEN 0
          ELSE NumberAt(RowOf(H, s, index.row), index.col)

\* A getCostAt whose two boundary layers read the index that is -1, so that
\* the cost against an empty prefix is always 0.
GetCostAtBoundarySwapped(H, s, i, j, width) ==
  IF i < 0 \/ j < 0
  THEN IF i = -1 /\ j >= -1 THEN i + 1
       ELSE IF j = -1 /\ i >= -1 THEN j + 1
       ELSE MAX_VALUE
  ELSE LET index == GetTrueIndex(i, j, width)
       IN IF index.sparse THEN MAX_VALUE
          ELSE NumberAt(RowOf(H, s, index.row), index.col)

GetCostAt(H, s, i, j, width) ==
  IF i < 0 \/ j < 0
  THEN IF i = -1 /\ j >= -1 THEN j + 1
       ELSE IF j = -1 /\ i >= -1 THEN i + 1
       ELSE MAX_VALUE
  ELSE LET index == GetTrueIndex(i, j, width)
       IN IF index.sparse THEN MAX_VALUE
          ELSE NumberAt(RowOf(H, s, index.row), index.col)

GetHeuristicFinalCost(H, s) ==
  GetCostAt(H, s, Len(InputOf(H, s)) - 1, Len(MatchOf(H, s)) - 1, s.diagonalWidth)

(***************************************************************************)
(* initialCostAt                                                           *)
(***************************************************************************)
\* `x || y` on an optional number: y when x is undefined, NaN or 0.
OrElse(x, y) == IF x = UndefinedCost \/ x = NaN \/ x = 0 THEN y ELSE x

\* An initialCostAt that leaves the transposition out of the recurrence.
InitialCostAtWithoutTransposition(H, buffer, r, c, insertCost, deleteCost) ==
  LET input == InputOf(H, buffer)
      match == MatchOf(H, buffer)
      w == buffer.diagonalWidth
      baseSubstitutionCost == IF At(input, r) = At(match, c) THEN 0 ELSE 1
      substitutionCost == Plus(GetCostAt(H, buffer, r - 1, c - 1, w), baseSubstitutionCost)
      insertionCost == OrElse(insertCost, Plus(GetCostAt(H, buffer, r, c - 1, w), 1))
      deletionCost == OrElse(deleteCost, Plus(GetCostAt(H, buffer, r - 1, c, w), 1))
  IN MathMin(MathMin(substitutionCost, deletionCost), insertionCost)

InitialCostAt(H, buffer, r, c, insertCost, deleteCost) ==
  LET input == InputOf(H, buffer)
      match == MatchOf(H, buffer)
      w == buffer.diagonalWidth
      baseSubstitutionCost == IF At(input, r) = At(match, c) THEN 0 ELSE 1
      substitutionCost == Plus(GetCostAt(H, buffer, r - 1, c - 1, w), baseSubstitutionCost)
      insertionCost == OrElse(insertCost, Plus(GetCostAt(H, buffer, r, c - 1, w), 1))
      deletionCost == OrElse(deleteCost, Plus(GetCostAt(H, buffer, r - 1, c, w), 1))
      transpositionCost ==
        IF r > 0 /\ c > 0
        THEN LET lastInputIndex == LastIndexOf(input, At(match, c), r - 1)
                 lastMatchIndex == LastIndexOf(match, At(input, r), c - 1)
             IN Plus(GetCostAt(H, buffer, lastInputIndex - 1, lastMatchIndex - 1, w),
                     (r - lastInputIndex - 1) + 1 + (c - lastMatchIndex - 1))
        ELSE MAX_VALUE
  IN MathMin(MathMin(substitutionCost, deletionCost),
             MathMin(insertionCost, transpositionCost))

\* row[k] = v on the array at address a; a write past the end of the array
\* lengthens it, the elements skipped being undefined.
Store(H, a, k, v) ==
  IF k < Len(H[a]) THEN [H EXCEPT ![a][k + 1] = v]
  ELSE [H EXCEPT ![a] = @ \o Filled(k - Len(@), UndefinedCost) \o <<v>>]

(***************************************************************************)
(* addInputChar                                                            *)
(***************************************************************************)
\* A cell loop of addInputChar that stops after the first cell of the new row.
AddInputCellsFirstOnly(H, buffer, r, c, cMax) ==
  IF c > cMax THEN H
  ELSE LET trueColIndex == c + r - buffer.diagonalWidth
           v == InitialCostAt(H, buffer, r, trueColIndex, UndefinedCost, UndefinedCost)
       IN Store(H, RowsOf(H, buffer)[r + 1], c, v)

RECURSIVE AddInputCells(_, _, _, _, _)
AddInputCells(H, buffer, r, c, cMax) ==
  IF c > cMax THEN H
  ELSE LET trueColIndex == c + r - buffer.diagonalWidth
           v == InitialCostAt(H, buffer, r, trueColIndex, UndefinedCost, UndefinedCost)
       IN AddInputCells(Store(H, RowsOf(H, buffer)[r + 1], c, v), buffer, r, c + 1, cMax)

AddInputChar(H, this, char) ==
  LET cl == Clone(H, this)
      returnBuffer == cl.ret
      r == Len(InputOf(cl.heap, returnBuffer))
      H1 == [cl.heap EXCEPT ![returnBuffer.inputSequence] = Append(@, char)]
      H2 == Alloc(H1, Filled(2 * returnBuffer.diagonalWidth + 1, MAX_VALUE))
      H3 == [H2 EXCEPT ![returnBuffer.resolvedDistances] = Append(@, Len(H2))]
      c0 == returnBuffer.diagonalWidth - r
      c == IF c0 < 0 THEN 0 ELSE c0
      cMax0 == Len(MatchOf(H3, returnBuffer)) - r - 1 + returnBuffer.diagonalWidth
      cMax == IF cMax0 > 2 * returnBuffer.diagonalWidth
              THEN 2 * returnBuffer.diagonalWidth ELSE cMax0
  IN IF Len(MatchOf(H3, returnBuffer)) = 0
     THEN [heap |-> H3, ret |-> returnBuffer]
     ELSE [heap |-> AddInputCells(H3, returnBuffer, r, c, cMax), ret |-> returnBuffer]

(***************************************************************************)
(* addMatchChar                                                            *)
(***************************************************************************)
\* A cell loop of addMatchChar that forgets the shift of a row by the width,
\* and ends at the first row the unshifted index falls before.
RECURSIVE AddMatchCellsUnshifted(_, _, _, _, _, _)
AddMatchCellsUnshifted(H, this, buffer, r, rMax, c) ==
  IF r > rMax \/ c - r < 0 THEN H
  ELSE LET cIndexInRow == c - r
           v == InitialCostAt(H, buffer, r, c, UndefinedCost, UndefinedCost)
       IN AddMatchCellsUnshifted(Store(H, RowsOf(H, buffer)[r + 1], cIndexInRow, v),
                                 this, buffer, r + 1, rMax, c)

RECURSIVE AddMatchCells(_, _, _, _, _, _)
AddMatchCells(H, this, buffer, r, rMax, c) ==
  IF r > rMax THEN H
  ELSE LET cIndexInRow == c - r + this.diagonalWidth
           v == InitialCostAt(H, buffer, r, c, UndefinedCost, UndefinedCost)
       IN AddMatchCells(Store(H, RowsOf(H, buffer)[r + 1], cIndexInRow, v),
                        this, buffer, r + 1, rMax, c)

AddMatchChar(H, this, char) ==
  LET cl == Clone(H, this)
      returnBuffer == cl.ret
      c == Len(MatchOf(cl.heap, returnBuffer))
      H1 == [cl.heap EXCEPT ![returnBuffer.matchSequence] = Append(@, char)]
      r0 == c - returnBuffer.diagonalWidth
      r == IF r0 < 0 THEN 0 ELSE r0
      rMax0 == Len(InputOf(H1, returnBuffer)) - 1
      rMax == IF rMax0 > c + returnBuffer.diagonalWidth
              THEN c + returnBuffer.diagonalWidth ELSE rMax0
  IN IF Len(InputOf(H1, returnBuffer)) = 0
     THEN [heap |-> H1, ret |-> returnBuffer]
     ELSE [heap |-> AddMatchCells(H1, this, returnBuffer, r, rMax, c), ret |-> returnBuffer]

(***************************************************************************)
(* propagateUpdateFrom                                                     *)
(***************************************************************************)
\* A propagateUpdateFrom that overwrites whatever cost differs from the one
\* propagated, a lower one included.
RECURSIVE PropagateUpdateFromUnguarded(_, _, _, _, _, _)
PropagateUpdateFromUnguarded(H, buffer, r, c, value, diagonalIndex) ==
  LET stored == NumberAt(RowOf(H, buffer, r), diagonalIndex)
  IN IF ~(IsNumber(stored) /\ IsNumber(value) /\ value # stored) THEN H
     ELSE LET H0 == Store(H, RowsOf(H, buffer)[r + 1], diagonalIndex, value)
              input == InputOf(H, buffer)
              match == MatchOf(H, buffer)
              internalRow == r < Len(input) - 1
              internalCol == c < Len(match) - 1
              H1 == IF diagonalIndex < 2 * (buffer.diagonalWidth - 1) /\ internalCol
                    THEN PropagateUpdateFromUnguarded(H0, buffer, r, c + 1,
                           Plus(value, 1), diagonalIndex + 1)
                    ELSE H0
              H2 == IF diagonalIndex > 0 /\ internalRow
                    THEN PropagateUpdateFromUnguarded(H1, buffer, r + 1, c,
                           Plus(value, 1), diagonalIndex - 1)
                    ELSE H1
              H3 == IF internalRow /\ internalCol
                    THEN PropagateUpdateFromUnguarded(H2, buffer, r + 1, c + 1,
                           Plus(value, IF At(input, r + 1) = At(match, c + 1)
                                       THEN 0 ELSE 1),
                           diagonalIndex)
                    ELSE H2
              nextInputIndex == IndexOf(input, At(match, c + 1), r + 2)
              nextMatchIndex == IndexOf(match, At(input, r + 1), c + 2)
          IN IF nextInputIndex > 0 /\ nextMatchIndex > 0
             THEN PropagateUpdateFromUnguarded(H3, buffer, nextInputIndex,
                    nextMatchIndex,
                    Plus(value, (nextInputIndex - r - 2) + 1 + (nextMatchIndex - c - 2)),
                    (buffer.diagonalWidth - 1) + nextMatchIndex - nextInputIndex)
             ELSE H3

\* The heap after propagateUpdateFrom(buffer, r, c, value, diagonalIndex).  A
\* diagonalIndex outside the row's array reads undefined, and `value <
\* undefined` is false: nothing is written.
RECURSIVE PropagateUpdateFrom(_, _, _, _, _, _)
PropagateUpdateFrom(H, buffer, r, c, value, diagonalIndex) ==
  IF ~Less(value, NumberAt(RowOf(H, buffer, r), diagonalIndex)) THEN H
  ELSE LET H0 == Store(H, RowsOf(H, buffer)[r + 1], diagonalIndex, value)
           input == InputOf(H, buffer)
           match == MatchOf(H, buffer)
           internalRow == r < Len(input) - 1
           internalCol == c < Len(match) - 1
           H1 == IF diagonalIndex < 2 * (buffer.diagonalWidth - 1) /\ internalCol
                 THEN PropagateUpdateFrom(H0, buffer, r, c + 1, Plus(value, 1),
                                          diagonalIndex + 1)
                 ELSE H0
           H2 == IF diagonalIndex > 0 /\ internalRow
                 THEN PropagateUpdateFrom(H1, buffer, r + 1, c, Plus(value, 1),
                                          diagonalIndex - 1)
                 ELSE H1
           H3 == IF internalRow /\ internalCol
                 THEN PropagateUpdateFrom(H2, buffer, r + 1, c + 1,
                        Plus(value, IF At(input, r + 1) = At(match, c + 1) THEN 0 ELSE 1),
                        diagonalIndex)
                 ELSE H2
           nextInputIndex == IndexOf(input, At(match, c + 1), r + 2)
           nextMatchIndex == IndexOf(match, At(input, r + 1), c + 2)
       IN IF nextInputIndex > 0 /\ nextMatchIndex > 0
          THEN PropagateUpdateFrom(H3, buffer, nextInputIndex, nextMatchIndex,
                 Plus(value, (nextInputIndex - r - 2) + 1 + (nextMatchIndex - c - 2)),
                 (buffer.diagonalWidth - 1) + nextMatchIndex - nextInputIndex)
          ELSE H3

\* propagateUpdateFrom with its four relaxations taken in the given order: 1
\* is the cell to the right (insertion), 2 the cell below (deletion), 3 the
\* cell on the diagonal (substitution), 4 the cell a transposition leads to.
\* The code takes them in the order <<1, 2, 3, 4>>.
RECURSIVE PropagateUpdateFromInOrder(_, _, _, _, _, _, _)
RECURSIVE RelaxInOrder(_, _, _, _, _, _, _, _)
RelaxInOrder(H, buffer, r, c, value, diagonalIndex, order, k) ==
  IF k > Len(order) THEN H
  ELSE LET input == InputOf(H, buffer)
           match == MatchOf(H, buffer)
           internalRow == r < Len(input) - 1
           internalCol == c < Len(match) - 1
           nextInputIndex == IndexOf(input, At(match, c + 1), r + 2)
           nextMatchIndex == IndexOf(match, At(input, r + 1), c + 2)
           H1 == IF order[k] = 1 /\ diagonalIndex < 2 * (buffer.diagonalWidth - 1) /\ internalCol
                 THEN PropagateUpdateFromInOrder(H, buffer, r, c + 1, Plus(value, 1),
                                                 diagonalIndex + 1, order)
                 ELSE IF order[k] = 2 /\ diagonalIndex > 0 /\ internalRow
                 THEN PropagateUpdateFromInOrder(H, buffer, r + 1, c, Plus(value, 1),
                                                 diagonalIndex - 1, order)
                 ELSE IF order[k] = 3 /\ internalRow /\ internalCol
                 THEN PropagateUpdateFromInOrder(H, buffer, r + 1, c + 1,
                        Plus(value, IF At(input, r + 1) = At(match, c + 1) THEN 0 ELSE 1),
                        diagonalIndex, order)
                 ELSE IF order[k] = 4 /\ nextInputIndex > 0 /\ nextMatchIndex > 0
                 THEN PropagateUpdateFromInOrder(H, buffer, nextInputIndex, nextMatchIndex,
                        Plus(value, (nextInputIndex - r - 2) + 1 + (nextMatchIndex - c - 2)),
                        (buffer.diagonalWidth - 1) + nextMatchIndex - nextInputIndex, order)
                 ELSE H
       IN RelaxInOrder(H1, buffer, r, c, value, diagonalIndex, order, k + 1)

PropagateUpdateFromInOrder(H, buffer, r, c, value, diagonalIndex, order) ==
  IF ~Less(value, NumberAt(RowOf(H, buffer, r), diagonalIndex)) THEN H
  ELSE RelaxInOrder(Store(H, RowsOf(H, buffer)[r + 1], diagonalIndex, value),
                    buffer, r, c, value, diagonalIndex, order, 1)

(***************************************************************************)
(* increaseMaxDistance                                                     *)
(***************************************************************************)
\* forPossibleTranspositionsInDiagonal, from diagonalIndex on, with the closure
\* of the left cell (side = "left": fixedAxis is transposeRow) or of the right
\* cell (side = "right": fixedAxis is transposeCol).
RECURSIVE ForPossibleTranspositionsInDiagonal(_, _, _, _, _, _, _, _, _)
ForPossibleTranspositionsInDiagonal(H, returnBuffer, startPos, fixedChar, lookupString, diagonalIndex, side, fixedAxis, addedCost) ==
  LET diagonalCap0 == 2 * (returnBuffer.diagonalWidth - 1)
      axisCap == Len(lookupString) - 1
      diagonalCap == IF diagonalCap0 < axisCap - startPos THEN diagonalCap0
                     ELSE axisCap - startPos
      axisIndex == startPos + diagonalIndex
      diagColIndex == 2 * (returnBuffer.diagonalWidth - 1) - diagonalIndex
      H1 == IF fixedChar = At(lookupString, axisIndex)
            THEN IF side = "left"
                 THEN PropagateUpdateFrom(H, returnBuffer, fixedAxis, axisIndex,
                        Plus(addedCost, diagonalIndex + 2), diagonalIndex)
                 ELSE PropagateUpdateFrom(H, returnBuffer, axisIndex, fixedAxis,
                        Plus(addedCost, diagonalIndex + 2), diagColIndex)
            ELSE H
  IN IF diagonalIndex > diagonalCap THEN H
     ELSE ForPossibleTranspositionsInDiagonal(H1, returnBuffer, startPos, fixedChar,
            lookupString, diagonalIndex + 1, side, fixedAxis, addedCost)

\* A left part that computes no cell: the new left cell of every row is left
\* at MAX_VALUE.
WidenLeftUncomputed(H, this, returnBuffer, r) ==
  [heap |-> H, ret |-> MAX_VALUE]

\* The left part of one pass of the row loop: [heap, ret |-> leftCell].
WidenLeft(H, this, returnBuffer, r) ==
  LET c == r - returnBuffer.diagonalWidth
      insertionCost == IF c = 0 THEN r + 2 ELSE MAX_VALUE
      leftCell == InitialCostAt(H, returnBuffer, r, c, insertionCost, UndefinedCost)
      addedCost == leftCell
      H1 == PropagateUpdateFrom(H, returnBuffer, r, c + 1, Plus(addedCost, 1), 0)
      transposeRow == r + 2
      rowChar == At(InputOf(H, returnBuffer), r + 1)
      H2 == IF r + 2 < Len(InputOf(H, this))
            THEN ForPossibleTranspositionsInDiagonal(H1, returnBuffer, c + 3, rowChar,
                   MatchOf(H, returnBuffer), 0, "left", transposeRow, addedCost)
            ELSE H1
  IN IF c >= 0
     THEN [heap |-> IF c < Len(MatchOf(H, returnBuffer)) - 1 THEN H2 ELSE H,
           ret |-> leftCell]
     ELSE [heap |-> H, ret |-> MAX_VALUE]

\* The right part of one pass of the row loop: [heap, ret |-> rightCell].
WidenRight(H, this, returnBuffer, r) ==
  LET c == r + returnBuffer.diagonalWidth
      deletionCost == IF r = 0 THEN c + 2 ELSE MAX_VALUE
      insertionCost == Plus(GetCostAt(H, returnBuffer, r, c - 1, this.diagonalWidth), 1)
      rightCell == InitialCostAt(H, returnBuffer, r, c, insertionCost, deletionCost)
      addedCost == rightCell
      H1 == PropagateUpdateFrom(H, returnBuffer, r + 1, c, Plus(addedCost, 1),
                                2 * this.diagonalWidth)
      transposeCol == c + 2
      colChar == At(MatchOf(H, returnBuffer), r + 1)
      H2 == IF c + 2 < Len(MatchOf(H, this))
            THEN ForPossibleTranspositionsInDiagonal(H1, returnBuffer, r + 3, colChar,
                   InputOf(H, returnBuffer), 0, "right", transposeCol, addedCost)
            ELSE H1
  IN IF c < Len(MatchOf(H, returnBuffer))
     THEN [heap |-> IF r < Len(InputOf(H, returnBuffer)) - 1 THEN H2 ELSE H,
           ret |-> rightCell]
     ELSE [heap |-> H, ret |-> MAX_VALUE]

\* The row loop, from row r on.  Each pass ends by replacing row r with a new
\* array, [leftCell].concat(row, rightCell).
RECURSIVE WidenRows(_, _, _, _)
WidenRows(H, this, returnBuffer, r) ==
  IF r >= Len(InputOf(H, returnBuffer)) THEN H
  ELSE LET left == WidenLeft(H, this, returnBuffer, r)
           right == WidenRight(left.heap, this, returnBuffer, r)
           H1 == Alloc(right.heap,
                       <<left.ret>> \o RowOf(right.heap, returnBuffer, r) \o <<right.ret>>)
           H2 == [H1 EXCEPT ![returnBuffer.resolvedDistances][r + 1] = Len(H1)]
       IN WidenRows(H2, this, returnBuffer, r + 1)

\* An increaseMaxDistance that widens the calculation it is called on, its
\* rows included, instead of a copy of it.
IncreaseMaxDistanceInPlace(H, this) ==
  LET returnBuffer == [this EXCEPT !.diagonalWidth = @ + 1]
  IN IF Len(InputOf(H, returnBuffer)) < 1 \/ Len(MatchOf(H, returnBuffer)) < 1
     THEN [heap |-> H, ret |-> returnBuffer]
     ELSE [heap |-> WidenRows(H, this, returnBuffer, 0), ret |-> returnBuffer]

IncreaseMaxDistance(H, this) ==
  LET cl == Clone(H, this)
      returnBuffer == [cl.ret EXCEPT !.diagonalWidth = @ + 1]
  IN IF Len(InputOf(cl.heap, returnBuffer)) < 1 \/ Len(MatchOf(cl.heap, returnBuffer)) < 1
     THEN [heap |-> cl.heap, ret |-> returnBuffer]
     ELSE [heap |-> WidenRows(cl.heap, this, returnBuffer, 0), ret |-> returnBuffer]

(***************************************************************************)
(* getFinalCost, hasFinalCostWithin                                        *)
(***************************************************************************)
\* A getFinalCost loop that also widens when the heuristic equals the width.
RECURSIVE FinalCostLoopWhileAtLeast(_, _, _)
FinalCostLoopWhileAtLeast(H, buffer, val) ==
  IF LessEq(buffer.diagonalWidth, val)
  THEN LET w == IncreaseMaxDistance(H, buffer)
       IN FinalCostLoopWhileAtLeast(w.heap, w.ret,
                                    GetHeuristicFinalCost(w.heap, w.ret))
  ELSE [heap |-> H, ret |-> val, buffer |-> buffer]

\* The loop of getFinalCost: ret is the value returned, buffer the local
\* calculation the loop ended on.
RECURSIVE FinalCostLoop(_, _, _)
FinalCostLoop(H, buffer, val) ==
  IF Less(buffer.diagonalWidth, val)
  THEN LET w == IncreaseMaxDistance(H, buffer)
       IN FinalCostLoop(w.heap, w.ret, GetHeuristicFinalCost(w.heap, w.ret))
  ELSE [heap |-> H, ret |-> val, buffer |-> buffer]

GetFinalCost(H, this) == FinalCostLoop(H, this, GetHeuristicFinalCost(H, this))

\* A hasFinalCostWithin that answers from the heuristic of the calculation it
\* is called on, without widening.
WithinLoopWithoutWidening(H, this, threshold, buffer, val, guaranteedBound) ==
  [heap |-> H, ret |-> LessEq(val, threshold), buffer |-> buffer]

\* A hasFinalCostWithin that widens once more, while the bound is at most the
\* threshold.
RECURSIVE WithinLoopWhileAtMost(_, _, _, _, _, _)
WithinLoopWhileAtMost(H, this, threshold, buffer, val, guaranteedBound) ==
  IF LessEq(val, threshold) THEN [heap |-> H, ret |-> TRUE, buffer |-> buffer]
  ELSE IF guaranteedBound <= threshold
  THEN LET w == IncreaseMaxDistance(H, buffer)
       IN WithinLoopWhileAtMost(w.heap, this, threshold, w.ret,
                                GetHeuristicFinalCost(w.heap, w.ret), guaranteedBound + 1)
  ELSE [heap |-> H, ret |-> FALSE, buffer |-> buffer]

\* The loop of hasFinalCostWithin; buffer is the local calculation the loop
\* ends with.
RECURSIVE WithinLoop(_, _, _, _, _, _)
WithinLoop(H, this, threshold, buffer, val, guaranteedBound) ==
  IF LessEq(val, threshold) THEN [heap |-> H, ret |-> TRUE, buffer |-> buffer]
  ELSE IF guaranteedBound < threshold
  THEN LET w == IncreaseMaxDistance(H, buffer)
       IN WithinLoop(w.heap, this, threshold, w.ret,
                     GetHeuristicFinalCost(w.heap, w.ret), guaranteedBound + 1)
  ELSE IF guaranteedBound > Max2(Len(InputOf(H, this)), Len(MatchOf(H, this)))
  THEN [heap |-> H, ret |-> FALSE, buffer |-> buffer]
  ELSE [heap |-> H, ret |-> FALSE, buffer |-> buffer]

HasFinalCostWithin(H, this, threshold) ==
  WithinLoop(H, this, threshold, this, GetHeuristicFinalCost(H, this), this.diagonalWidth)

(***************************************************************************)
(* DiagonalizedIterativeDamerauLevenshteinCalculation, the class that      *)
(* src/src/diagonalized-iterative-dl.ts declares last.  Its constructor    *)
(* copies every row and both sequences of the calculation it is given, and *)
(* every method writes to that copy alone, so a calculation is modelled by *)
(* its value: resolvedDistances holds the full matrix, two boundary layers *)
(* before row 0 and before column 0, a cell never written being undefined.*)
(***************************************************************************)
\* new DiagonalizedIterativeDamerauLevenshteinCalculation()
DiagonalizedNew ==
  [resolvedDistances |-> <<<<MAX_VALUE, MAX_VALUE>>, <<MAX_VALUE, 0>>>>,
   diagonalWidth |-> 1,
   inputSequence |-> <<>>,
   matchSequence |-> <<>>]

DiagonalizedGetCostAt(d, i, j) ==
  LET val == NumberAt(d.resolvedDistances[i + 3], j + 2)
  IN IF val = UndefinedCost THEN MAX_VALUE ELSE val

DiagonalizedGetHeuristicFinalCost(d) ==
  DiagonalizedGetCostAt(d, Len(d.inputSequence) - 1, Len(d.matchSequence) - 1)

\* resolvedDistances[rowIndex][colIndex] = v, a write past the end of the row
\* lengthening it.
DiagonalizedStore(d, rowIndex, colIndex, v) ==
  [d EXCEPT !.resolvedDistances[rowIndex + 1] =
     IF colIndex < Len(@) THEN [@ EXCEPT ![colIndex + 1] = v]
     ELSE @ \o Filled(colIndex - Len(@), UndefinedCost) \o <<v>>]

DiagonalizedComputeValue(d, r, c) ==
  LET inputChar == At(d.inputSequence, r)
      matchChar == At(d.matchSequence, c)
      lastInputIndex == IF r > 0 THEN LastIndexOf(d.inputSequence, matchChar, r - 1) ELSE -1
      lastMatchIndex == IF c > 0 THEN LastIndexOf(d.matchSequence, inputChar, c - 1) ELSE -1
      substitutionCost == Plus(DiagonalizedGetCostAt(d, r - 1, c - 1),
                               IF inputChar = matchChar THEN 0 ELSE 1)
      insertionCost == Plus(DiagonalizedGetCostAt(d, r, c - 1), 1)
      deletionCost == Plus(DiagonalizedGetCostAt(d, r - 1, c), 1)
      transpositionCost ==
        Plus(DiagonalizedGetCostAt(d, lastInputIndex - 1, lastMatchIndex - 1),
             (r - lastInputIndex - 1) + 1 + (c - lastMatchIndex - 1))
  IN MathMin(MathMin(substitutionCost, insertionCost),
             MathMin(deletionCost, transpositionCost))

\* for(let c = startCol; c < endCol; c++) of addInputChar
RECURSIVE DiagonalizedInputCells(_, _, _, _)
DiagonalizedInputCells(d, r, c, endCol) ==
  IF c < endCol
  THEN DiagonalizedInputCells(
         DiagonalizedStore(d, r + 2, c + 2, DiagonalizedComputeValue(d, r, c)),
         r, c + 1, endCol)
  ELSE d

DiagonalizedAddInputChar(this, char) ==
  LET r == Len(this.inputSequence)
      rowIndex == r + 2
      returnBuffer ==
        [this EXCEPT !.resolvedDistances = Append(@, <<MAX_VALUE, rowIndex - 1>>),
                     !.inputSequence = Append(@, char)]
      startCol == IF r - returnBuffer.diagonalWidth >= 0
                  THEN r - returnBuffer.diagonalWidth ELSE 0
      endCol == IF r + returnBuffer.diagonalWidth + 1 >= Len(returnBuffer.matchSequence)
                THEN Len(returnBuffer.matchSequence)
                ELSE r + returnBuffer.diagonalWidth + 1
  IN DiagonalizedInputCells(returnBuffer, r, startCol, endCol)

\* for(let r = startRow; r < endRow; r++) of addMatchChar
RECURSIVE DiagonalizedMatchCells(_, _, _, _)
DiagonalizedMatchCells(d, r, c, endRow) ==
  IF r < endRow
  THEN DiagonalizedMatchCells(
         DiagonalizedStore(d, r + 2, c + 2, DiagonalizedComputeValue(d, r, c)),
         r + 1, c, endRow)
  ELSE d

DiagonalizedAddMatchChar(this, char) ==
  LET c == Len(this.matchSequence)
      colIndex == c + 2
      layers == DiagonalizedStore(DiagonalizedStore(this, 0, colIndex, MAX_VALUE),
                                  1, colIndex, colIndex - 1)
      returnBuffer == [layers EXCEPT !.matchSequence = Append(@, char)]
      startRow == IF c - returnBuffer.diagonalWidth >= 0
                  THEN c - returnBuffer.diagonalWidth ELSE 0
      endRow == IF c + returnBuffer.diagonalWidth + 1 >= Len(returnBuffer.inputSequence)
                THEN Len(returnBuffer.inputSequence)
                ELSE c + returnBuffer.diagonalWidth + 1
  IN DiagonalizedMatchCells(returnBuffer, startRow, c, endRow)

RECURSIVE DiagonalizedPropagateUpdateFrom(_, _, _, _, _)
DiagonalizedPropagateUpdateFrom(buffer, r, c, value, diagonalIndex) ==
  IF ~Less(value, NumberAt(buffer.resolvedDistances[r + 3], c + 2)) THEN buffer
  ELSE LET b0 == DiagonalizedStore(buffer, r + 2, c + 2, value)
           internalRow == r < Len(buffer.inputSequence) - 1
           internalCol == c < Len(buffer.matchSequence) - 1
           b1 == IF diagonalIndex < 2 * (buffer.diagonalWidth - 1) /\ internalCol
                 THEN DiagonalizedPropagateUpdateFrom(b0, r, c + 1, Plus(value, 1),
                                                      diagonalIndex + 1)
                 ELSE b0
           b2 == IF diagonalIndex > 0 /\ internalRow
                 THEN DiagonalizedPropagateUpdateFrom(b1, r + 1, c, Plus(value, 1),
                                                      diagonalIndex - 1)
                 ELSE b1
           b3 == IF internalRow /\ internalCol
                 THEN DiagonalizedPropagateUpdateFrom(
                        b2, r + 1, c + 1,
                        Plus(value, IF At(buffer.inputSequence, r + 1)
                                         = At(buffer.matchSequence, c + 1) THEN 0 ELSE 1),
                        diagonalIndex)
                 ELSE b2
           nextInputIndex == IndexOf(buffer.inputSequence,
                                     At(buffer.matchSequence, c + 1), r + 2)
           nextMatchIndex == IndexOf(buffer.matchSequence,
                                     At(buffer.inputSequence, r + 1), c + 2)
       IN IF nextInputIndex > 0 /\ nextMatchIndex > 0
          THEN DiagonalizedPropagateUpdateFrom(
                 b3, nextInputIndex, nextMatchIndex,
                 Plus(value, (nextInputIndex - r - 2) + 1 + (nextMatchIndex - c - 2)),
                 (buffer.diagonalWidth - 1) + nextMatchIndex - nextInputIndex)
          ELSE b3

\* for(let diagRow = r + 3; diagRow < rowCap; diagRow++), the transpositions
\* that the new right cell of row r makes possible.
RECURSIVE DiagonalizedRightTranspositions(_, _, _, _, _, _, _, _)
DiagonalizedRightTranspositions(this, returnBuffer, diagRow, rowCap, startOffset, colChar, transposeCol, addedCost) ==
  IF diagRow < rowCap
  THEN LET transposeRow == diagRow + startOffset
           diagIndex == this.diagonalWidth - (transposeRow - transposeCol)
           updated ==
             IF At(returnBuffer.inputSequence, transposeRow) = colChar
             THEN DiagonalizedPropagateUpdateFrom(returnBuffer, transposeRow, transposeCol,
                                                  Plus(addedCost, diagRow + 2), diagIndex)
             ELSE returnBuffer
       IN DiagonalizedRightTranspositions(this, updated, diagRow + 1, rowCap, startOffset,
                                          colChar, transposeCol, addedCost)
  ELSE returnBuffer

\* for(let diagCol = 0; diagCol < colCap; diagCol++), the transpositions that
\* the new left cell of row r makes possible.
RECURSIVE DiagonalizedLeftTranspositions(_, _, _, _, _, _, _)
DiagonalizedLeftTranspositions(returnBuffer, diagCol, colCap, startOffset, rowChar, transposeRow, addedCost) ==
  IF diagCol < colCap
  THEN LET transposeCol == diagCol + startOffset
           updated ==
             IF At(returnBuffer.matchSequence, transposeCol) = rowChar
             THEN DiagonalizedPropagateUpdateFrom(returnBuffer, transposeRow, transposeCol,
                                                  Plus(addedCost, diagCol + 2), diagCol)
             ELSE returnBuffer
       IN DiagonalizedLeftTranspositions(updated, diagCol + 1, colCap, startOffset,
                                         rowChar, transposeRow, addedCost)
  ELSE returnBuffer

\* The right cell of row r of increaseMaxDistance, lines 395-431.
DiagonalizedWidenRight(this, returnBuffer, r) ==
  LET rightCellCol == r + returnBuffer.diagonalWidth
  IN IF rightCellCol < Len(returnBuffer.matchSequence)
     THEN LET addedCost == DiagonalizedComputeValue(returnBuffer, r, rightCellCol)
              b0 == DiagonalizedStore(returnBuffer, r + 2, rightCellCol + 2, addedCost)
              b1 == IF r + 1 < Len(returnBuffer.inputSequence)
                    THEN DiagonalizedPropagateUpdateFrom(b0, r + 1, rightCellCol,
                                                         Plus(addedCost, 1),
                                                         2 * this.diagonalWidth)
                    ELSE b0
              transposeCol == rightCellCol + 2
              startOffset == r + 3
              rowCap == Min2(2 * this.diagonalWidth + 1,
                             Len(returnBuffer.inputSequence) - startOffset)
          IN IF transposeCol < Len(returnBuffer.matchSequence)
             THEN DiagonalizedRightTranspositions(
                    this, b1, r + 3, rowCap, startOffset,
                    At(returnBuffer.matchSequence, rightCellCol + 1),
                    transposeCol, addedCost)
             ELSE b1
     ELSE returnBuffer

\* The left cell of row r of increaseMaxDistance, lines 433-465.
DiagonalizedWidenLeft(this, returnBuffer, r) ==
  LET leftCellCol == r - returnBuffer.diagonalWidth
  IN IF leftCellCol >= 0
     THEN LET addedCost == DiagonalizedComputeValue(returnBuffer, r, leftCellCol)
              b0 == DiagonalizedStore(returnBuffer, r + 2, leftCellCol + 2, addedCost)
              b1 == DiagonalizedPropagateUpdateFrom(b0, r, leftCellCol + 1,
                                                    Plus(addedCost, 1), 0)
              transposeRow == r + 2
              startOffset == leftCellCol + 3
              colCap == Min2(2 * this.diagonalWidth + 1,
                             Len(returnBuffer.matchSequence) - startOffset)
          IN IF transposeRow < Len(returnBuffer.inputSequence)
             THEN DiagonalizedLeftTranspositions(
                    b1, 0, colCap, startOffset,
                    At(returnBuffer.inputSequence, r + 1), transposeRow, addedCost)
             ELSE b1
     ELSE returnBuffer

\* for(let r = 0; r < returnBuffer.inputSequence.length; r++)
RECURSIVE DiagonalizedWidenRows(_, _, _)
DiagonalizedWidenRows(this, returnBuffer, r) ==
  IF r < Len(returnBuffer.inputSequence)
  THEN DiagonalizedWidenRows(
         this,
         DiagonalizedWidenLeft(this, DiagonalizedWidenRight(this, returnBuffer, r), r),
         r + 1)
  ELSE returnBuffer

DiagonalizedIncreaseMaxDistance(this) ==
  DiagonalizedWidenRows(this, [this EXCEPT !.diagonalWidth = @ + 1], 0)

RECURSIVE DiagonalizedFinalCostLoop(_, _)
DiagonalizedFinalCostLoop(buffer, val) ==
  IF Less(buffer.diagonalWidth, val)
  THEN LET widened == DiagonalizedIncreaseMaxDistance(buffer)
       IN DiagonalizedFinalCostLoop(widened, DiagonalizedGetHeuristicFinalCost(widened))
  ELSE val

DiagonalizedGetFinalCost(this) ==
  DiagonalizedFinalCostLoop(this, DiagonalizedGetHeuristicFinalCost(this))

RECURSIVE DiagonalizedWithinLoop(_, _, _, _)
DiagonalizedWithinLoop(threshold, buffer, val, guaranteedBound) ==
  IF LessEq(val, threshold) THEN TRUE
  ELSE IF guaranteedBound < threshold
  THEN LET widened == DiagonalizedIncreaseMaxDistance(buffer)
       IN DiagonalizedWithinLoop(threshold, widened,
                                 DiagonalizedGetHeuristicFinalCost(widened), guaranteedBound + 1)
  ELSE FALSE

DiagonalizedHasFinalCostWithin(this, threshold) ==
  DiagonalizedWithinLoop(threshold, this, DiagonalizedGetHeuristicFinalCost(this), this.diagonalWidth)

\* compute(input, match, "InputThenMatch", bandSize) of
\* tests/cases/diagonalized-iterative-tests.js, for a bandSize of 1 or more.
RECURSIVE DiagonalizedAppendInputs(_, _)
DiagonalizedAppendInputs(d, input) ==
  IF input = <<>> THEN d
  ELSE DiagonalizedAppendInputs(DiagonalizedAddInputChar(d, Head(input)), Tail(input))

RECURSIVE DiagonalizedAppendMatches(_, _)
DiagonalizedAppendMatches(d, match) ==
  IF match = <<>> THEN d
  ELSE DiagonalizedAppendMatches(DiagonalizedAddMatchChar(d, Head(match)), Tail(match))

DiagonalizedBuild(input, match, bandSize) ==
  DiagonalizedAppendMatches(
    DiagonalizedAppendInputs([DiagonalizedNew EXCEPT !.diagonalWidth = bandSize], input),
    match)

(***************************************************************************)
(* The full-matrix recurrence (BaselineIterativeDamerauLevenshteinCalc-    *)
(* ulation.computeValue of src/src/baseline-dl.ts), the distance DL(a, b)  *)
(* that the banded calculation is measured against.                        *)
(***************************************************************************)
\* getCostAt(i, j) of the full matrix: M holds rows 0.. of the computed cells,
\* the two outer layers of the buffer are MAX_VALUE and the edit costs against
\* an empty prefix.
BaselineGetCostAt(M, i, j) ==
  IF i < -1 \/ j < -1 THEN MAX_VALUE
  ELSE IF i = -1 THEN j + 1
  ELSE IF j = -1 THEN i + 1
  ELSE M[i + 1][j + 1]

BaselineComputeValue(M, input, match, r, c) ==
  LET inputChar == input[r + 1]
      matchChar == match[c + 1]
      lastInputIndex == IF r > 0 THEN LastIndexOf(input, matchChar, r - 1) ELSE -1
      lastMatchIndex == IF c > 0 THEN LastIndexOf(match, inputChar, c - 1) ELSE -1
      substitutionCost == Plus(BaselineGetCostAt(M, r - 1, c - 1),
                               IF inputChar = matchChar THEN 0 ELSE 1)
      insertionCost == Plus(BaselineGetCostAt(M, r, c - 1), 1)
      deletionCost == Plus(BaselineGetCostAt(M, r - 1, c), 1)
      transpositionCost ==
        Plus(BaselineGetCostAt(M, lastInputIndex - 1, lastMatchIndex - 1),
             (r - lastInputIndex - 1) + 1 + (c - lastMatchIndex - 1))
  IN MathMin(MathMin(substitutionCost, insertionCost),
             MathMin(deletionCost, transpositionCost))

\* The matrix filled row by row, each row left to right, from cell (r, c) on.
RECURSIVE BaselineFill(_, _, _, _, _)
BaselineFill(M, input, match, r, c) ==
  IF r >= Len(input) THEN M
  ELSE IF c >= Len(match) THEN BaselineFill(M, input, match, r + 1, 0)
  ELSE LET M0 == IF c = 0 THEN Append(M, <<>>) ELSE M
           v == BaselineComputeValue(M0, input, match, r, c)
       IN BaselineFill([M0 EXCEPT ![r + 1] = Append(@, v)], input, match, r, c + 1)

DL(input, match) ==
  BaselineGetCostAt(BaselineFill(<<>>, input, match, 0, 0), Len(input) - 1, Len(match) - 1)

(***************************************************************************)
(* getDamerauLevenshteinEditDistance(str, other) of src/src/baseline-dl.ts,*)
(* the function the tests of the baseline call, and the                    *)
(* EditDistanceCalculationBuffer it fills.                                 *)
(***************************************************************************)
\* distBuffer[1]: an array holding MAX_VALUE at index 0, then c - 1 at c.
RECURSIVE EditCostsRow(_, _)
EditCostsRow(row, cols) ==
  IF Len(row) >= cols THEN row ELSE EditCostsRow(Append(row, Len(row) - 1), cols)

\* distBuffer[r] = [MAX_VALUE, r - 1] for r from 2 on.
RECURSIVE OtherRows(_, _)
OtherRows(distBuffer, rows) ==
  IF Len(distBuffer) >= rows THEN distBuffer
  ELSE OtherRows(Append(distBuffer, <<MAX_VALUE, Len(distBuffer) - 1>>), rows)

\* new EditDistanceCalculationBuffer(rows, cols)
EditDistanceCalculationBuffer(rows, cols) ==
  OtherRows(<<Filled(cols + 2, MAX_VALUE), EditCostsRow(<<<<MAX_VALUE>>>>, cols + 2)>>, rows + 2)

BufferGetCostAt(resolvedDistances, i, j) == NumberAt(resolvedDistances[i + 3], j + 2)

BufferSetCostAt(resolvedDistances, i, j, cost) ==
  [resolvedDistances EXCEPT ![i + 3] =
     IF j + 2 < Len(@) THEN [@ EXCEPT ![j + 3] = cost]
     ELSE @ \o Filled(j + 2 - Len(@), UndefinedCost) \o <<cost>>]

\* The body of the two loops, from cell (r, c) on: charLastPositionInStr maps
\* a symbol to the last row that held it, or to undefined.
RECURSIVE EditDistanceLoop(_, _, _, _, _, _, _)
EditDistanceLoop(resolvedDistances, str, other, r, c, charLastPositionInStr, lastPositionInOther) ==
  IF r >= Len(str) THEN resolvedDistances
  ELSE IF c >= Len(other)
  THEN EditDistanceLoop(resolvedDistances, str, other, r + 1, 0,
                        [charLastPositionInStr EXCEPT ![str[r + 1]] = r], -1)
  ELSE LET prevIndexOfOtherCharInStr == OrElse(charLastPositionInStr[other[c + 1]], -1)
           prevIndexOfStrCharInOther == lastPositionInOther
           same == str[r + 1] = other[c + 1]
           substitutionEditCost == IF same THEN 0 ELSE 1
           substitutionCost == Plus(BufferGetCostAt(resolvedDistances, r - 1, c - 1), substitutionEditCost)
           insertionCost == Plus(BufferGetCostAt(resolvedDistances, r, c - 1), 1)
           deletionCost == Plus(BufferGetCostAt(resolvedDistances, r - 1, c), 1)
           k == prevIndexOfOtherCharInStr
           l == prevIndexOfStrCharInOther
           transpositionCost == Plus(BufferGetCostAt(resolvedDistances, k - 1, l - 1),
                                     (r - k - 1) + 1 + (c - l - 1))
           cost == MathMin(MathMin(substitutionCost, insertionCost),
                           MathMin(deletionCost, transpositionCost))
       IN EditDistanceLoop(BufferSetCostAt(resolvedDistances, r, c, cost), str, other, r, c + 1,
                           charLastPositionInStr, IF same THEN c ELSE lastPositionInOther)

getDamerauLevenshteinEditDistance(str, other) ==
  BufferGetCostAt(
    EditDistanceLoop(EditDistanceCalculationBuffer(Len(str), Len(other)), str, other, 0, 0,
                     [char \in {Symbols[i] : i \in 1..Len(Symbols)} |-> UndefinedCost], -1),
    Len(str) - 1, Len(other) - 1)

(***************************************************************************)
(* compute(input, match, mode, bandSize) of the tests: a new calculation,  *)
(* its diagonalWidth assigned, then every character appended, in one of    *)
(* two orders.  compute() assigns `bandSize || 1`; Build assigns the width *)
(* it is given, 0 included, as a caller of the class may.                  *)
(***************************************************************************)
RECURSIVE AppendInputs(_, _, _, _)
AppendInputs(H, buffer, input, i) ==
  IF i >= Len(input) THEN [heap |-> H, ret |-> buffer]
  ELSE LET w == AddInputChar(H, buffer, input[i + 1])
       IN AppendInputs(w.heap, w.ret, input, i + 1)

RECURSIVE AppendMatches(_, _, _, _)
AppendMatches(H, buffer, match, j) ==
  IF j >= Len(match) THEN [heap |-> H, ret |-> buffer]
  ELSE LET w == AddMatchChar(H, buffer, match[j + 1])
       IN AppendMatches(w.heap, w.ret, match, j + 1)

\* new SparsifiedIterativeDamerauLevenshteinCalculation() followed by
\* buffer.diagonalWidth = width.
NewOfWidth(width) ==
  LET new == NewEmpty(<<>>)
  IN [heap |-> new.heap, ret |-> [new.ret EXCEPT !.diagonalWidth = width]]

Build(input, match, mode, width) ==
  LET new == NewOfWidth(width)
  IN IF mode = "InputThenMatch"
     THEN LET w == AppendInputs(new.heap, new.ret, input, 0)
          IN AppendMatches(w.heap, w.ret, match, 0)
     ELSE LET w == AppendMatches(new.heap, new.ret, match, 0)
          IN AppendInputs(w.heap, w.ret, input, 0)

(***************************************************************************)
(* The state: the heap, the calculation the caller holds (cur), the one    *)
(* the last call was made on (callee), what that one looked like before    *)
(* the call (before), the last call and the number of widenings so far.    *)
(***************************************************************************)
VARIABLES heap, cur, callee, before, lastOp, widenings, diagonalized

vars == <<heap, cur, callee, before, lastOp, widenings, diagonalized>>

Chars == {Symbols[i] : i \in 1..Len(Symbols)}

\* The rows of s, by value.
RECURSIVE RowValues(_, _, _)
RowValues(H, rows, r) ==
  IF r >= Len(rows) THEN <<>>
  ELSE <<H[rows[r + 1]]>> \o RowValues(H, rows, r + 1)

\* Everything that can be observed of calculation s.
View(H, s) ==
  [inputSequence |-> InputOf(H, s), matchSequence |-> MatchOf(H, s),
   diagonalWidth |-> s.diagonalWidth,
   resolvedDistances |-> RowValues(H, RowsOf(H, s), 0)]

\* Arrays that no calculation refers to are gone, and an address means nothing
\* but the array it names: the heap is kept as the arrays of the given
\* calculations, in the order they are first referred to.
Refs(H, s) ==
  <<s.resolvedDistances, s.inputSequence, s.matchSequence>> \o RowsOf(H, s)

RECURSIVE Distinct(_)
Distinct(q) ==
  IF q = <<>> THEN <<>>
  ELSE LET d == Distinct(SubSeq(q, 1, Len(q) - 1))
           x == q[Len(q)]
       IN IF \E i \in 1..Len(d) : d[i] = x THEN d ELSE Append(d, x)

NewAddress(order, a) == CHOOSE i \in 1..Len(order) : order[i] = a

RECURSIVE Readdress(_, _, _)
Readdress(arr, order, k) ==
  IF k > Len(arr) THEN <<>>
  ELSE <<NewAddress(order, arr[k])>> \o Readdress(arr, order, k + 1)

RECURSIVE Relocate(_, _, _, _)
Relocate(H, order, rowArrays, k) ==
  IF k > Len(order) THEN <<>>
  ELSE << IF order[k] \in rowArrays THEN Readdress(H[order[k]], order, 1)
          ELSE H[order[k]] >> \o Relocate(H, order, rowArrays, k + 1)

Moved(s, order) ==
  [inputSequence |-> NewAddress(order, s.inputSequence),
   matchSequence |-> NewAddress(order, s.matchSequence),
   resolvedDistances |-> NewAddress(order, s.resolvedDistances),
   diagonalWidth |-> s.diagonalWidth]

Collect(H, s1, s2) ==
  LET order == Distinct(Refs(H, s1) \o Refs(H, s2))
  IN [heap |-> Relocate(H, order, {s1.resolvedDistances, s2.resolvedDistances}, 1),
      first |-> Moved(s1, order), second |-> Moved(s2, order)]

\* The symbols a caller appends next: the program only compares symbols for
\* equality, so a symbol not used yet is named by the first unused one.
RECURSIVE Range(_)
Range(q) == IF q = <<>> THEN {} ELSE {Head(q)} \cup Range(Tail(q))

NextChars(H, s) ==
  LET used == Cardinality(Range(InputOf(H, s)) \cup Range(MatchOf(H, s)))
  IN {Symbols[k] : k \in 1..Min2(Len(Symbols), used + 1)}

\* A new calculation, its diagonalWidth being one of widths.
Created(widths) ==
  \E w \in widths :
    LET new == NewOfWidth(w)
    IN /\ heap = new.heap
       /\ cur = new.ret
       /\ callee = new.ret
       /\ before = View(new.heap, new.ret)
       /\ lastOp = "new"
       /\ widenings = 0
       /\ diagonalized = DiagonalizedNew

\* The caller takes the calculation the call returned and still holds the one
\* it called.
Returned(w, op) ==
  LET kept == Collect(w.heap, cur, w.ret)
  IN /\ heap' = kept.heap
     /\ callee' = kept.first
     /\ cur' = kept.second
     /\ before' = View(heap, cur)
     /\ lastOp' = op
     /\ UNCHANGED diagonalized

\* buffer = buffer.addInputChar(...): the caller takes the calculation the call
\* returned and lets go of the one it called; it holds no calculation that a
\* call was made on.
Replaced(w) ==
  LET kept == Collect(w.heap, w.ret, w.ret)
  IN /\ heap' = kept.heap
     /\ callee' = kept.first
     /\ cur' = kept.first
     /\ before' = View(kept.heap, kept.first)
     /\ lastOp' = "new"
     /\ UNCHANGED diagonalized

(***************************************************************************)
(* Spec: a calculation of any of the initial widths, then appends and      *)
(* widenings in any order, the caller holding on to the calculation each   *)
(* call was made on.                                                       *)
(***************************************************************************)
Init == Created(0..MaxInitWidth)

DoAddInputChar(char) ==
  /\ Len(InputOf(heap, cur)) < MaxInput
  /\ char \in NextChars(heap, cur)
  /\ Returned(AddInputChar(heap, cur, char), "addInputChar")
  /\ UNCHANGED widenings

DoAddMatchChar(char) ==
  /\ Len(MatchOf(heap, cur)) < MaxMatch
  /\ char \in NextChars(heap, cur)
  /\ Returned(AddMatchChar(heap, cur, char), "addMatchChar")
  /\ UNCHANGED widenings

DoIncreaseMaxDistance ==
  /\ widenings < MaxWidenings
  /\ Returned(IncreaseMaxDistance(heap, cur), "increaseMaxDistance")
  /\ widenings' = widenings + 1

Next ==
  \/ \E char \in Chars : DoAddInputChar(char)
  \/ \E char \in Chars : DoAddMatchChar(char)
  \/ DoIncreaseMaxDistance

Spec == Init /\ [][Next]_vars

(***************************************************************************)
(* BuildSpec: a calculation of the default width, built by appends in any  *)
(* order as compute() builds one (buffer = buffer.addInputChar(...)) and   *)
(* then widened as the loop of getFinalCost widens it: while its           *)
(* getHeuristicFinalCost() exceeds its diagonalWidth.  Longer sequences    *)
(* and more widenings than Spec affords.                                   *)
(***************************************************************************)
BuildInit == Created({NewEmpty(<<>>).ret.diagonalWidth})

BuildAddInputChar(char) ==
  /\ widenings = 0
  /\ Len(InputOf(heap, cur)) < MaxBuildInput
  /\ char \in NextChars(heap, cur)
  /\ Replaced(AddInputChar(heap, cur, char))
  /\ UNCHANGED widenings

BuildAddMatchChar(char) ==
  /\ widenings = 0
  /\ Len(MatchOf(heap, cur)) < MaxBuildMatch
  /\ char \in NextChars(heap, cur)
  /\ Replaced(AddMatchChar(heap, cur, char))
  /\ UNCHANGED widenings

BuildIncreaseMaxDistance ==
  /\ widenings < MaxBuildWidenings
  /\ Less(cur.diagonalWidth, GetHeuristicFinalCost(heap, cur))
  /\ Replaced(IncreaseMaxDistance(heap, cur))
  /\ widenings' = widenings + 1

BuildNext ==
  \/ \E char \in Chars : BuildAddInputChar(char)
  \/ \E char \in Chars : BuildAddMatchChar(char)
  \/ BuildIncreaseMaxDistance

BuildSpec == BuildInit /\ [][BuildNext]_vars

(***************************************************************************)
(* DiagonalizedSpec: a DiagonalizedIterativeDamerauLevenshteinCalculation  *)
(* of the default width, built as compute() builds one in its default mode *)
(* (the input sequence, then the match sequence) and then widened.         *)
(***************************************************************************)
MaxDiagonalizedInput == 5
MaxDiagonalizedMatch == 6
MaxDiagonalizedWidenings == 1

DiagonalizedNextChars ==
  LET used == Cardinality(Range(diagonalized.inputSequence)
                            \cup Range(diagonalized.matchSequence))
  IN {Symbols[k] : k \in 1..Min2(Len(Symbols), used + 1)}

DiagonalizedInit == Created({NewEmpty(<<>>).ret.diagonalWidth})

DiagonalizedDoAddInputChar(char) ==
  /\ widenings = 0
  /\ diagonalized.matchSequence = <<>>
  /\ Len(diagonalized.inputSequence) < MaxDiagonalizedInput
  /\ char \in DiagonalizedNextChars
  /\ diagonalized' = DiagonalizedAddInputChar(diagonalized, char)
  /\ UNCHANGED <<heap, cur, callee, before, lastOp, widenings>>

DiagonalizedDoAddMatchChar(char) ==
  /\ widenings = 0
  /\ Len(diagonalized.matchSequence) < MaxDiagonalizedMatch
  /\ char \in DiagonalizedNextChars
  /\ diagonalized' = DiagonalizedAddMatchChar(diagonalized, char)
  /\ UNCHANGED <<heap, cur, callee, before, lastOp, widenings>>

DiagonalizedDoIncreaseMaxDistance ==
  /\ widenings < MaxDiagonalizedWidenings
  /\ diagonalized' = DiagonalizedIncreaseMaxDistance(diagonalized)
  /\ widenings' = widenings + 1
  /\ UNCHANGED <<heap, cur, callee, before, lastOp>>

DiagonalizedNext ==
  \/ \E char \in Chars : DiagonalizedDoAddInputChar(char)
  \/ \E char \in Chars : DiagonalizedDoAddMatchChar(char)
  \/ DiagonalizedDoIncreaseMaxDistance

DiagonalizedSpec == DiagonalizedInit /\ [][DiagonalizedNext]_vars

(***************************************************************************)
(* What the properties are stated in.                                      *)
(***************************************************************************)
inputSequence == InputOf(heap, cur)
matchSequence == MatchOf(heap, cur)

\* getHeuristicFinalCost() of the calculation held, and of one just returned.
Heuristic == GetHeuristicFinalCost(heap, cur)
HeuristicOf(w) == GetHeuristicFinalCost(w.heap, w.ret)

\* The true distance between the two sequences of the calculation held.
Distance == DL(inputSequence, matchSequence)

\* The two orders compute() appends in.
Modes == {"InputThenMatch", "MatchThenInput"}

\* The calculation held was built by appends alone, at the default width.
BuiltAtDefaultWidth == widenings = 0 /\ cur.diagonalWidth = 1

\* The thresholds hasFinalCostWithin is asked about.
MaxThreshold == 5

\* The positions (r, c) of the matrix of calculation s.
Positions(H, s) ==
  (0..(Len(InputOf(H, s)) - 1)) \X (0..(Len(MatchOf(H, s)) - 1))

\* getCostAt(r, c) as each of the two calculations of the heap reads it.
CostNow(r, c) == GetCostAt(heap, cur, r, c, cur.diagonalWidth)
CostBefore(r, c) == GetCostAt(heap, callee, r, c, callee.diagonalWidth)

(***************************************************************************)
(* Properties                                                              *)
(***************************************************************************)

\* C1: getFinalCost() of a calculation built at width 1 by appending the
\* characters of a and of b is exactly DL(a, b).  (BuildSpec)
C1_FinalCostIsDistance ==
  BuiltAtDefaultWidth => GetFinalCost(heap, cur).ret = Distance

\* C2: the calculation built by appends alone at any fixed width w >= 0 has a
\* getHeuristicFinalCost() that is at least DL(a, b).  (Spec)
C2_BuiltHeuristicIsUpperBound ==
  widenings = 0 => LessEq(Distance, Heuristic)

\* A build whose band is too narrow for the best alignment: the heuristic is
\* strictly above the distance.
C2_Witness ==
  /\ widenings = 0
  /\ cur.diagonalWidth = 0
  /\ Len(inputSequence) = MaxInput
  /\ Less(Distance, Heuristic)
  /\ Heuristic < MAX_VALUE

\* C3: for every threshold t >= 0, hasFinalCostWithin(t) on the calculation
\* built at width 1 is true exactly when DL(a, b) <= t.  (BuildSpec)
C3_WithinIffDistanceWithin ==
  BuiltAtDefaultWidth =>
    \A t \in 0..MaxThreshold :
      HasFinalCostWithin(heap, cur, t).ret <=> (Distance <= t)

\* C4: in every calculation reached from the empty one by addInputChar,
\* addMatchChar and increaseMaxDistance, getHeuristicFinalCost() is at least
\* DL(inputSequence, matchSequence).  (BuildSpec)
C4_HeuristicIsUpperBound == LessEq(Distance, Heuristic)

\* C5: increaseMaxDistance() on the calculation built at width w >= 1 gives the
\* getHeuristicFinalCost() of the calculation built at width w + 1, the width
\* the widened calculation has.  (BuildSpec)
C5_WidenedIsRebuilt ==
  (widenings = 1 /\ cur.diagonalWidth - 1 >= 1) =>
    \A mode \in Modes :
      Heuristic = HeuristicOf(Build(inputSequence, matchSequence, mode,
                                    cur.diagonalWidth))

\* C6: at a fixed width, every interleaving of addInputChar and addMatchChar
\* that ends with the same two sequences gives the same
\* getHeuristicFinalCost(), that of all-input-then-all-match and that of
\* all-match-then-all-input.  (Spec)
C6_OrderIndependent ==
  widenings = 0 =>
    \A mode \in Modes :
      HeuristicOf(Build(inputSequence, matchSequence, mode, cur.diagonalWidth))
        = Heuristic

\* Two sequences long enough to be interleaved, the band too narrow to hold
\* every cell, the last call an append.
C6_Witness ==
  /\ widenings = 0
  /\ lastOp = "addInputChar"
  /\ Len(inputSequence) = MaxInput
  /\ Len(matchSequence) = MaxMatch
  /\ cur.diagonalWidth = 0
  /\ Less(Distance, Heuristic)

\* C7: addInputChar, addMatchChar and increaseMaxDistance return a new
\* calculation, one that shares no array with the one they were called on;
\* the calculation they were called on has the sequences, the width and the
\* costs it had before the call; and no operation then called on the returned
\* calculation changes them.  (Spec)
C7_CalleeUnchanged ==
  /\ View(heap, callee) = before
  /\ lastOp # "new" =>
       Range(Refs(heap, cur)) \cap Range(Refs(heap, callee)) = {}
  /\ \A char \in NextChars(heap, cur) :
       /\ View(AddInputChar(heap, cur, char).heap, callee) = before
       /\ View(AddMatchChar(heap, cur, char).heap, callee) = before
  /\ View(IncreaseMaxDistance(heap, cur).heap, callee) = before

\* A widening whose propagation lowered a cost that the calculation it was
\* called on stores.
C7_Witness ==
  /\ lastOp = "increaseMaxDistance"
  /\ \E p \in Positions(heap, callee) :
       /\ CostBefore(p[1], p[2]) < MAX_VALUE
       /\ Less(CostNow(p[1], p[2]), CostBefore(p[1], p[2]))

\* C8: for a calculation S of two non-empty sequences and every position
\* (r, c), the cost read at (r, c) in increaseMaxDistance(S) is at most the cost
\* read at (r, c) in S, a position outside the band of S reading MAX_VALUE; and
\* getHeuristicFinalCost() does not increase over a widening.  (Spec)
C8_WideningLowersCosts ==
  lastOp = "increaseMaxDistance" =>
    /\ (before.inputSequence # <<>> /\ before.matchSequence # <<>>) =>
         \A p \in Positions(heap, callee) :
           LessEq(CostNow(p[1], p[2]), CostBefore(p[1], p[2]))
    /\ LessEq(Heuristic, GetHeuristicFinalCost(heap, callee))

\* A widening after which the last cell reads strictly less than before, both
\* values being costs of alignments.
C8_Witness ==
  /\ lastOp = "increaseMaxDistance"
  /\ before.inputSequence # <<>>
  /\ before.matchSequence # <<>>
  /\ Less(Heuristic, GetHeuristicFinalCost(heap, callee))
  /\ GetHeuristicFinalCost(heap, callee) < MAX_VALUE

\* C9: for widths w1 < w2, the calculation built by appends at width w2 has a
\* getHeuristicFinalCost() that is at most that of the calculation built from
\* the same sequences at width w1.  (Spec)
C9_WiderBuildIsLower ==
  widenings = 0 =>
    \A w2 \in (cur.diagonalWidth + 1)..(MaxInitWidth + 1) :
      \A mode \in Modes :
        LessEq(HeuristicOf(Build(inputSequence, matchSequence, mode, w2)),
               Heuristic)

\* Three builds of the same sequences, the one of width 1 strictly lower than
\* the one of width 0 and the one of width 2 no higher than it.
C9_Witness ==
  /\ widenings = 0
  /\ cur.diagonalWidth = 0
  /\ Heuristic < MAX_VALUE
  /\ Less(HeuristicOf(Build(inputSequence, matchSequence, "InputThenMatch", 1)),
          Heuristic)
  /\ LessEq(HeuristicOf(Build(inputSequence, matchSequence, "InputThenMatch", 2)),
            HeuristicOf(Build(inputSequence, matchSequence, "InputThenMatch", 1)))

\* C10: in every calculation reached by appends and widenings, a
\* getHeuristicFinalCost() that is at most diagonalWidth is
\* DL(inputSequence, matchSequence).  (BuildSpec)
C10_WithinWidthIsExact ==
  LessEq(Heuristic, cur.diagonalWidth) => Heuristic = Distance

\* The longer of the two lengths of the calculation held.
LongerLength == Max2(Len(inputSequence), Len(matchSequence))

\* C11: with both sequences empty getHeuristicFinalCost() and getFinalCost()
\* are 0, and with exactly one of them empty both are the length of the other,
\* at every width and in every order of the calls.  (Spec)
C11_EmptySequences ==
  (inputSequence = <<>> \/ matchSequence = <<>>) =>
    /\ Heuristic = LongerLength
    /\ GetFinalCost(heap, cur).ret = LongerLength

\* An empty match against an input longer than the band is wide, so that
\* getFinalCost() has widenings to make before it answers.
C11_Witness ==
  /\ matchSequence = <<>>
  /\ Len(inputSequence) = MaxInput
  /\ cur.diagonalWidth < MaxInput
  /\ lastOp = "addInputChar"

\* The number of calls of increaseMaxDistance that getFinalCost() makes on the
\* calculation held: each call widens its local calculation by one.
FinalCostWidenings ==
  GetFinalCost(heap, cur).buffer.diagonalWidth - cur.diagonalWidth

\* C12: getFinalCost() returns on every calculation reached, after at most
\* max(0, max(m, n) - diagonalWidth) calls of increaseMaxDistance.  (Spec)
C12_FinalCostWidensAtMost ==
  /\ FinalCostWidenings >= 0
  /\ FinalCostWidenings <= Max2(0, LongerLength - cur.diagonalWidth)
  /\ IsNumber(GetFinalCost(heap, cur).ret)
  /\ GetFinalCost(heap, cur).ret <= LongerLength

\* Two non-empty sequences for which getFinalCost() widens at least twice, and
\* stops before the width has reached the longer length.
C12_Witness ==
  /\ inputSequence # <<>>
  /\ matchSequence # <<>>
  /\ FinalCostWidenings >= 2
  /\ FinalCostWidenings < LongerLength - cur.diagonalWidth

\* C13: getFinalCost(), getHeuristicFinalCost() and hasFinalCostWithin(t)
\* leave the calculation they are called on with the width, the sequences and
\* the costs it had, and asked again they answer the same.  (Spec)
C13_QueriesArePure ==
  /\ View(GetFinalCost(heap, cur).heap, cur) = View(heap, cur)
  /\ GetFinalCost(GetFinalCost(heap, cur).heap, cur).ret
       = GetFinalCost(heap, cur).ret
  /\ GetHeuristicFinalCost(GetFinalCost(heap, cur).heap, cur) = Heuristic
  /\ \A t \in 0..MaxThreshold :
       LET asked == HasFinalCostWithin(heap, cur, t)
       IN /\ View(asked.heap, cur) = View(heap, cur)
          /\ HasFinalCostWithin(asked.heap, cur, t).ret = asked.ret
          /\ GetHeuristicFinalCost(asked.heap, cur) = Heuristic

\* A calculation on which both queries widen a copy, and the widening lowers a
\* cost: getFinalCost() answers less than getHeuristicFinalCost().
C13_Witness ==
  /\ inputSequence # <<>>
  /\ matchSequence # <<>>
  /\ Heuristic < MAX_VALUE
  /\ Less(GetFinalCost(heap, cur).ret, Heuristic)
  /\ \E t \in 0..MaxThreshold :
       /\ HasFinalCostWithin(heap, cur, t).ret
       /\ Less(t, Heuristic)

\* C14: for the diagonalized calculation, increaseMaxDistance() on the build
\* of a and b at width w >= 1 has the getHeuristicFinalCost() of the build of
\* a and b at width w + 1, and getFinalCost() on the build at width 1 is
\* DL(a, b).  (DiagonalizedSpec)
C14_DiagonalizedWidenedIsRebuilt ==
  /\ widenings = 1 =>
       DiagonalizedGetHeuristicFinalCost(diagonalized)
         = DiagonalizedGetHeuristicFinalCost(
             DiagonalizedBuild(diagonalized.inputSequence,
                               diagonalized.matchSequence,
                               diagonalized.diagonalWidth))
  /\ widenings = 0 =>
       DiagonalizedGetFinalCost(diagonalized)
         = DL(diagonalized.inputSequence, diagonalized.matchSequence)

\* C15: after increaseMaxDistance() on the calculation built at width w, every
\* cell (r, c) with |r - c| <= w + 1 holds the value that the same cell holds
\* in the calculation built at width w + 1.  (BuildSpec)
C15_WidenedCellsAreRebuilt ==
  widenings = 1 =>
    \A mode \in Modes :
      LET built == Build(inputSequence, matchSequence, mode, cur.diagonalWidth)
      IN \A p \in Positions(heap, cur) :
           (p[1] - p[2] <= cur.diagonalWidth /\ p[2] - p[1] <= cur.diagonalWidth) =>
             CostNow(p[1], p[2])
               = GetCostAt(built.heap, built.ret, p[1], p[2], built.ret.diagonalWidth)

\* The four candidates of the recurrence at (r, c), each read from the cells
\* of the calculation held as getCostAt reads them.
SubstitutionCandidate(r, c) ==
  Plus(CostNow(r - 1, c - 1),
       IF inputSequence[r + 1] = matchSequence[c + 1] THEN 0 ELSE 1)
InsertionCandidate(r, c) == Plus(CostNow(r, c - 1), 1)
DeletionCandidate(r, c) == Plus(CostNow(r - 1, c), 1)
TranspositionCandidate(r, c) ==
  IF r > 0 /\ c > 0
  THEN LET lastInputIndex == LastIndexOf(inputSequence, matchSequence[c + 1], r - 1)
           lastMatchIndex == LastIndexOf(matchSequence, inputSequence[r + 1], c - 1)
       IN Plus(CostNow(lastInputIndex - 1, lastMatchIndex - 1),
               (r - lastInputIndex - 1) + 1 + (c - lastMatchIndex - 1))
  ELSE MAX_VALUE

\* The positions of the matrix that lie in the band of the calculation held.
InBand ==
  {p \in Positions(heap, cur) :
     p[1] - p[2] <= cur.diagonalWidth /\ p[2] - p[1] <= cur.diagonalWidth}

\* C16: in a calculation built by appends alone at width w, every cell of the
\* band holds the least of the substitution, insertion, deletion and
\* transposition candidates, a candidate that reads outside the band reading
\* MAX_VALUE.  (Spec)
C16_BandRecurrence ==
  widenings = 0 =>
    \A p \in InBand :
      CostNow(p[1], p[2])
        = Min2(Min2(SubstitutionCandidate(p[1], p[2]), InsertionCandidate(p[1], p[2])),
               Min2(DeletionCandidate(p[1], p[2]), TranspositionCandidate(p[1], p[2])))

\* A build with a cell that only the transposition explains, and a cell whose
\* insertion candidate reads outside the band.
C16_Witness ==
  /\ widenings = 0
  /\ \E p \in InBand :
       /\ CostNow(p[1], p[2]) = TranspositionCandidate(p[1], p[2])
       /\ CostNow(p[1], p[2]) < SubstitutionCandidate(p[1], p[2])
       /\ CostNow(p[1], p[2]) < InsertionCandidate(p[1], p[2])
       /\ CostNow(p[1], p[2]) < DeletionCandidate(p[1], p[2])
  /\ \E p \in InBand :
       /\ p[2] > 0
       /\ InsertionCandidate(p[1], p[2]) = MAX_VALUE
       /\ CostNow(p[1], p[2]) < MAX_VALUE

\* C17: whatever sequence of addInputChar, addMatchChar and
\* increaseMaxDistance leads from the empty calculation of width 1 to the
\* sequences a and b and the width w, getHeuristicFinalCost() is that of the
\* calculation built by appends alone from a and b at width w.  (BuildSpec)
C17_AppendsAndWideningsCommute ==
  \A mode \in Modes :
    Heuristic = HeuristicOf(Build(inputSequence, matchSequence, mode,
                                  cur.diagonalWidth))

\* Every order of the four relaxations of propagateUpdateFrom.
RelaxationOrders ==
  {order \in [1..4 -> 1..4] : \A i, j \in 1..4 : order[i] = order[j] => i = j}

\* The values offered to a cell.
MaxOffer == 3

\* The calls propagateUpdateFrom(buffer, r, c, value, diagonalIndex) that a
\* widening of the calculation held can start: buffer is the calculation with
\* its width raised and its rows not yet lengthened, diagonalIndex the index
\* of (r, c) in the row as it is.
Offers ==
  {o \in [r : 0..(Len(inputSequence) - 1), diagonalIndex : 0..(2 * cur.diagonalWidth),
          c : 0..(Len(matchSequence) - 1), value : 0..MaxOffer] :
     o.c = o.r + o.diagonalIndex - cur.diagonalWidth}

\* The cells of the calculation held that differ between two heaps.
CellsChanged(H1, H2) ==
  {p \in (0..(Len(inputSequence) - 1)) \X (0..(2 * cur.diagonalWidth)) :
     NumberAt(RowOf(H1, cur, p[1]), p[2]) # NumberAt(RowOf(H2, cur, p[1]), p[2])}

\* C18: the propagation that increaseMaxDistance starts ends;
\* propagateUpdateFrom writes a cell only when the value offered is strictly
\* lower than the one stored and goes on only after a write; and the values
\* stored at the end are the same in whatever order the four relaxations are
\* taken.  (Spec)
C18_PropagationIsOrderIndependent ==
  widenings < MaxWidenings =>
  /\ IncreaseMaxDistance(heap, cur).ret.diagonalWidth = cur.diagonalWidth + 1
  /\ LET buffer == [cur EXCEPT !.diagonalWidth = @ + 1]
     IN \A o \in Offers :
          LET stored == NumberAt(RowOf(heap, cur, o.r), o.diagonalIndex)
              after == PropagateUpdateFrom(heap, buffer, o.r, o.c, o.value,
                                           o.diagonalIndex)
          IN IF Less(o.value, stored)
             THEN /\ NumberAt(RowOf(after, cur, o.r), o.diagonalIndex) = o.value
                  /\ \A p \in CellsChanged(heap, after) :
                       Less(NumberAt(RowOf(after, cur, p[1]), p[2]),
                            NumberAt(RowOf(heap, cur, p[1]), p[2]))
                  /\ \A order \in RelaxationOrders :
                       PropagateUpdateFromInOrder(heap, buffer, o.r, o.c, o.value,
                                                  o.diagonalIndex, order) = after
             ELSE after = heap

\* A calculation returned by a widening whose propagation lowered a stored
\* cost, and on which a value offered to one cell is written to four cells or
\* more.
C18_Witness ==
  /\ lastOp = "increaseMaxDistance"
  /\ \E p \in Positions(heap, callee) :
       /\ CostBefore(p[1], p[2]) < MAX_VALUE
       /\ Less(CostNow(p[1], p[2]), CostBefore(p[1], p[2]))
  /\ \E o \in Offers :
       Cardinality(CellsChanged(heap,
         PropagateUpdateFrom(heap, [cur EXCEPT !.diagonalWidth = @ + 1],
                             o.r, o.c, o.value, o.diagonalIndex))) >= 4

\* The cells of the two diagonals that the last widening added: (r, r - w) and
\* (r, r + w) for the width w of the calculation held, where the matrix has
\* such a column.
NewDiagonals ==
  {p \in Positions(heap, cur) :
     p[2] = p[1] - cur.diagonalWidth \/ p[2] = p[1] + cur.diagonalWidth}

\* C19: increaseMaxDistance() on a calculation of width w with two non-empty
\* sequences returns a calculation of width w + 1 with the same sequences in
\* which, for every row r, the cells (r, r - (w + 1)) and (r, r + (w + 1))
\* that the matrix has hold a finite cost.  (Spec)
C19_NewDiagonalsAreFinite ==
  (/\ lastOp = "increaseMaxDistance"
   /\ before.inputSequence # <<>>
   /\ before.matchSequence # <<>>) =>
    /\ cur.diagonalWidth = before.diagonalWidth + 1
    /\ inputSequence = before.inputSequence
    /\ matchSequence = before.matchSequence
    /\ \A p \in NewDiagonals :
         /\ LessEq(0, CostNow(p[1], p[2]))
         /\ Less(CostNow(p[1], p[2]), MAX_VALUE)

\* A widening that added a cell on the left and a cell on the right, each of
\* them outside the band before.
C19_Witness ==
  /\ lastOp = "increaseMaxDistance"
  /\ before.inputSequence # <<>>
  /\ before.matchSequence # <<>>
  /\ \E p \in NewDiagonals : p[2] < p[1] /\ CostBefore(p[1], p[2]) = MAX_VALUE
  /\ \E p \in NewDiagonals : p[2] > p[1] /\ CostBefore(p[1], p[2]) = MAX_VALUE

\* The columns of row m that addInputChar writes on a calculation of width w
\* with m input and n match characters.
ColumnsWritten(m, n, w) == Max2(0, m - w)..Min2(n - 1, m + w)

\* C20: addInputChar(x) returns a calculation whose inputSequence is the
\* callee's with x appended and whose matchSequence and diagonalWidth are the
\* callee's; every cell of rows 0..m-1 is as in the callee; and the cells
\* written in the new row m are those of the columns max(0, m - w) to
\* min(n - 1, m + w), the others being left at MAX_VALUE.  (Spec)
C20_AddInputCharFrame ==
  \A x \in NextChars(heap, cur) :
    LET called == View(heap, cur)
        returned == AddInputChar(heap, cur, x)
        result == View(returned.heap, returned.ret)
        m == Len(called.inputSequence)
        n == Len(called.matchSequence)
        w == called.diagonalWidth
        row == result.resolvedDistances[m + 1]
    IN /\ result.inputSequence = Append(called.inputSequence, x)
       /\ result.matchSequence = called.matchSequence
       /\ result.diagonalWidth = w
       /\ Len(result.resolvedDistances) = m + 1
       /\ SubSeq(result.resolvedDistances, 1, m) = called.resolvedDistances
       /\ Len(row) = 2 * w + 1
       /\ \A k \in 0..(2 * w) :
            IF (k + m - w) \in ColumnsWritten(m, n, w)
            THEN LessEq(0, row[k + 1]) /\ Less(row[k + 1], MAX_VALUE)
            ELSE row[k + 1] = MAX_VALUE

\* An addInputChar whose new row has its band cut on the left by column 0 or
\* on the right by the last column: it holds cells written and cells left at
\* MAX_VALUE, above rows that hold costs.
C20_Witness ==
  /\ lastOp = "addInputChar"
  /\ Len(inputSequence) >= 2
  /\ cur.diagonalWidth >= 1
  /\ inputSequence = Append(before.inputSequence, inputSequence[Len(inputSequence)])
  /\ SubSeq(View(heap, cur).resolvedDistances, 1, Len(inputSequence) - 1)
       = before.resolvedDistances
  /\ \E k \in 1..(2 * cur.diagonalWidth + 1) :
       RowOf(heap, cur, Len(inputSequence) - 1)[k] = MAX_VALUE
  /\ \E k \in 1..(2 * cur.diagonalWidth + 1) :
       RowOf(heap, cur, Len(inputSequence) - 1)[k] < MAX_VALUE
  /\ \E p \in Positions(heap, callee) : CostBefore(p[1], p[2]) < MAX_VALUE

\* The rows of column n that addMatchChar writes on a calculation of width w
\* with m input and n match characters.
RowsWritten(m, n, w) == Max2(0, n - w)..Min2(m - 1, n + w)

\* C21: addMatchChar(y) returns a calculation whose matchSequence is the
\* callee's with y appended and whose inputSequence and diagonalWidth are the
\* callee's; the cells written are those of column n in the rows
\* max(0, n - w) to min(m - 1, n + w); and every other cell, those of the
\* columns below n among them, is as in the callee.  (Spec)
C21_AddMatchCharFrame ==
  \A y \in NextChars(heap, cur) :
    LET called == View(heap, cur)
        returned == AddMatchChar(heap, cur, y)
        result == View(returned.heap, returned.ret)
        m == Len(called.inputSequence)
        n == Len(called.matchSequence)
        w == called.diagonalWidth
    IN /\ result.matchSequence = Append(called.matchSequence, y)
       /\ result.inputSequence = called.inputSequence
       /\ result.diagonalWidth = w
       /\ Len(result.resolvedDistances) = m
       /\ \A r \in 0..(m - 1) :
            LET row == result.resolvedDistances[r + 1]
                old == called.resolvedDistances[r + 1]
            IN IF r \in RowsWritten(m, n, w)
               THEN /\ LessEq(0, NumberAt(row, n - r + w))
                    /\ Less(NumberAt(row, n - r + w), MAX_VALUE)
                    /\ \A k \in 0..(2 * w) :
                         k # n - r + w => NumberAt(row, k) = NumberAt(old, k)
               ELSE row = old

\* An addMatchChar on a calculation with more rows than the band reaches in
\* the new column: rows written and a row left alone, next to columns that
\* hold costs.
C21_Witness ==
  /\ lastOp = "addMatchChar"
  /\ Len(matchSequence) >= 2
  /\ matchSequence = Append(before.matchSequence, matchSequence[Len(matchSequence)])
  /\ inputSequence = before.inputSequence
  /\ Len(inputSequence) - 1 > Len(matchSequence) - 1 + cur.diagonalWidth
  /\ CostNow(Len(matchSequence) - 1, Len(matchSequence) - 1) < MAX_VALUE
  /\ CostBefore(Len(matchSequence) - 1, Len(matchSequence) - 1) = MAX_VALUE
  /\ View(heap, cur).resolvedDistances[Len(inputSequence)]
       = before.resolvedDistances[Len(inputSequence)]

\* The elements of the rows of cur that stand for a column outside the
\* matrix: pairs of a row r and a column c with c < 0 or c >= n.
StoredOutsideMatrix ==
  {p \in (0..(Len(inputSequence) - 1)) \X ((0 - cur.diagonalWidth)..(Len(inputSequence) - 1 + cur.diagonalWidth)) : /\ p[2] - p[1] + cur.diagonalWidth \in 0..(2 * cur.diagonalWidth) /\ (p[2] < 0 \/ p[2] >= Len(matchSequence))}

\* C22: addInputChar, addMatchChar, increaseMaxDistance and
\* propagateUpdateFrom write costs only at positions (r, c) with 0 <= r < m,
\* 0 <= c < n and |r - c| <= width: after any sequence of them no row holds
\* a cost for a column c >= n (or c < 0), the new left-diagonal cell of a
\* widening included.  (Spec)
C22_WritesStayInsideMatrix ==
  \A p \in StoredOutsideMatrix :
    NumberAt(RowOf(heap, cur, p[1]), p[2] - p[1] + cur.diagonalWidth) \in {MAX_VALUE, UndefinedCost}

\* The number of calls of increaseMaxDistance that hasFinalCostWithin(t)
\* makes on the calculation held, and the width of the widest calculation it
\* reads.
WithinWidenings(t) ==
  HasFinalCostWithin(heap, cur, t).buffer.diagonalWidth - cur.diagonalWidth

WithinWidestBand(t) == HasFinalCostWithin(heap, cur, t).buffer.diagonalWidth

\* C23: hasFinalCostWithin(t) on a calculation of width w calls
\* increaseMaxDistance at most max(0, t - w) times and reads no calculation
\* wider than max(w, t); it returns true without widening when the heuristic
\* is at most t, and false without widening when the heuristic exceeds t
\* and w >= t.  (Spec)
C23_WithinWidensAtMost ==
  \A t \in 0..MaxThreshold :
    /\ WithinWidenings(t) >= 0
    /\ WithinWidenings(t) <= Max2(0, t - cur.diagonalWidth)
    /\ WithinWidestBand(t) <= Max2(cur.diagonalWidth, t)
    /\ LessEq(Heuristic, t) =>
         HasFinalCostWithin(heap, cur, t).ret /\ WithinWidenings(t) = 0
    /\ (~LessEq(Heuristic, t) /\ cur.diagonalWidth >= t) =>
         ~HasFinalCostWithin(heap, cur, t).ret /\ WithinWidenings(t) = 0

\* A calculation for which hasFinalCostWithin(2) widens as often as the
\* bound allows and answers false, for which hasFinalCostWithin(3) widens
\* and answers true, and for which hasFinalCostWithin(0) answers false at
\* once.
C23_Witness ==
  /\ cur.diagonalWidth = 0
  /\ WithinWidenings(2) = 2
  /\ ~HasFinalCostWithin(heap, cur, 2).ret
  /\ WithinWidenings(3) >= 1
  /\ HasFinalCostWithin(heap, cur, 3).ret
  /\ WithinWidenings(0) = 0
  /\ ~HasFinalCostWithin(heap, cur, 0).ret

\* The widths at which the band of a calculation over the two sequences held
\* covers the whole matrix: max(m, n) and the width above it.
CoveringWidths == LongerLength..(LongerLength + 1)

\* C24: a calculation built by appends at a width of at least max(m, n) has
\* getHeuristicFinalCost() equal to the cost that the full-matrix
\* BaselineIterativeDamerauLevenshteinCalculation holds at (m - 1, n - 1)
\* after the same appends, in either order of appending.  (BuildSpec)
C24_CoveringBandIsBaseline ==
  widenings = 0 =>
    \A mode \in Modes :
      \A width \in CoveringWidths :
        HeuristicOf(Build(inputSequence, matchSequence, mode, width)) = Distance

\* Sequences of the longest lengths whose distance is below the longer length
\* and that the band of width 1 does not reach, built at a covering width.
C24_Witness ==
  /\ widenings = 0
  /\ Len(inputSequence) = MaxBuildInput
  /\ Len(matchSequence) = MaxBuildMatch
  /\ Distance < LongerLength
  /\ Distance > 1
  /\ HeuristicOf(Build(inputSequence, matchSequence, "MatchThenInput", LongerLength)) = Distance

\* C25: getDamerauLevenshteinEditDistance(a, b) returns the value that the
\* full-matrix iterative calculation holds at (|a| - 1, |b| - 1), a previous
\* occurrence at index 0 of the first string counting as any other does.
\* (Spec)
C25_OracleIsBaseline ==
  getDamerauLevenshteinEditDistance(inputSequence, matchSequence) = Distance

\* buffer = buffer.increaseMaxDistance(), k times, on a calculation of each
\* class.
RECURSIVE WidenedTimes(_, _)
WidenedTimes(w, k) ==
  IF k <= 0 THEN w ELSE WidenedTimes(IncreaseMaxDistance(w.heap, w.ret), k - 1)

RECURSIVE DiagonalizedWidenedTimes(_, _)
DiagonalizedWidenedTimes(d, k) ==
  IF k <= 0 THEN d ELSE DiagonalizedWidenedTimes(DiagonalizedIncreaseMaxDistance(d), k - 1)

\* The two calculations that the same calls make from a new calculation of
\* each class at the default width: the characters of the input, those of the
\* match, then as many widenings as the calculation held has had.
SparsifiedSameCalls ==
  WidenedTimes(Build(inputSequence, matchSequence, "InputThenMatch", NewEmpty(<<>>).ret.diagonalWidth), widenings)

DiagonalizedSameCalls ==
  DiagonalizedWidenedTimes(DiagonalizedBuild(inputSequence, matchSequence, DiagonalizedNew.diagonalWidth), widenings)

\* C26: the sparsified and the diagonalized calculation that the same
\* sequence of addInputChar, addMatchChar and increaseMaxDistance calls makes
\* from a new calculation of the same width answer alike:
\* getHeuristicFinalCost(), getFinalCost() and hasFinalCostWithin(t) for
\* every t.  (BuildSpec)
C26_ClassesAnswerAlike ==
  /\ HeuristicOf(SparsifiedSameCalls) = DiagonalizedGetHeuristicFinalCost(DiagonalizedSameCalls)
  /\ GetFinalCost(SparsifiedSameCalls.heap, SparsifiedSameCalls.ret).ret
       = DiagonalizedGetFinalCost(DiagonalizedSameCalls)
  /\ \A t \in 0..MaxThreshold :
       HasFinalCostWithin(SparsifiedSameCalls.heap, SparsifiedSameCalls.ret, t).ret
         = DiagonalizedHasFinalCostWithin(DiagonalizedSameCalls, t)

\* The calculation of the two sequences held with their roles exchanged:
\* built at the default width with the match as input and the input as match,
\* then widened as often as the calculation held has been.
Mirrored ==
  WidenedTimes(Build(matchSequence, inputSequence, "InputThenMatch", NewEmpty(<<>>).ret.diagonalWidth), widenings)

\* C27: the calculation is symmetric in its two sequences: the calculation
\* built from (a, b) and the one built from (b, a) at the same width have the
\* same getHeuristicFinalCost(), directly after the build and after the same
\* number of increaseMaxDistance() calls.  (BuildSpec)
C27_SymmetricInItsSequences == Heuristic = HeuristicOf(Mirrored)

\* The cells of the calculation held that are materialised: the positions of
\* the matrix that lie in the band.
MaterialisedCells ==
  {p \in Positions(heap, cur) : p[1] - p[2] <= cur.diagonalWidth /\ p[2] - p[1] <= cur.diagonalWidth}

\* C28: in every calculation reached each cell (r, c) of the matrix that lies
\* in the band holds a finite integer v with |r - c| <= v <= max(r, c) + 1;
\* hence, for m, n >= 1, getHeuristicFinalCost() is +infinity exactly when
\* |m - n| > diagonalWidth.  (Spec)
C28_CellsAreFiniteAndBounded ==
  /\ \A p \in MaterialisedCells :
       /\ IsNumber(CostNow(p[1], p[2]))
       /\ CostNow(p[1], p[2]) >= Max2(p[1] - p[2], p[2] - p[1])
       /\ CostNow(p[1], p[2]) <= Max2(p[1], p[2]) + 1
  /\ (inputSequence # <<>> /\ matchSequence # <<>>) =>
       (Heuristic = MAX_VALUE
          <=> Max2(Len(inputSequence) - Len(matchSequence), Len(matchSequence) - Len(inputSequence)) > cur.diagonalWidth)

\* A widened calculation with cells at both edges of the band, one of them
\* holding max(r, c) + 1, whose last cell lies outside the band.
C28_Witness ==
  /\ widenings >= 1
  /\ Len(inputSequence) = MaxInput
  /\ Len(matchSequence) = 1
  /\ cur.diagonalWidth = 1
  /\ Heuristic = MAX_VALUE
  /\ CostNow(1, 0) = 2
  /\ CostNow(0, 0) = 1

\* C29: on every calculation reached and for every threshold t >= 0,
\* hasFinalCostWithin(t) is true exactly when getFinalCost() <= t.  (Spec)
C29_WithinIsFinalCostAtMost ==
  \A t \in 0..MaxThreshold :
    HasFinalCostWithin(heap, cur, t).ret <=> LessEq(GetFinalCost(heap, cur).ret, t)

\* A calculation whose heuristic is above its final cost: the threshold
\* below the final cost is refused and the final cost is accepted, both after
\* widening.
C29_Witness ==
  /\ GetFinalCost(heap, cur).ret = 2
  /\ Less(2, Heuristic)
  /\ cur.diagonalWidth = 0
  /\ HasFinalCostWithin(heap, cur, 2).ret
  /\ HasFinalCostWithin(heap, cur, 2).buffer.diagonalWidth > 0
  /\ ~HasFinalCostWithin(heap, cur, 1).ret
  /\ HasFinalCostWithin(heap, cur, 1).buffer.diagonalWidth > 0

\* The positions getCostAt is asked about: every row of the calculation held
\* and the two rows before row 0, every column of the band of any row and the
\* two columns before column 0.
PositionsRead ==
  ((0 - 2)..(Len(inputSequence) - 1)) \X ((0 - 2)..(Len(inputSequence) + cur.diagonalWidth))

====
